---- MODULE Spec2Model ----
(***************************************************************************)
(* mathematica_mcp.logger: the module body that configures the process-    *)
(* wide Loguru logger (src/src/mathematica_mcp/logger.py), the loads of    *)
(* that module (import, cached import, reload, load under another name)    *)
(* and the logging calls made through the shared logger                    *)
(* (src/tests/test_logger.py).                                             *)
(*                                                                         *)
(* Strings the code computes with (module names, paths, log text) are      *)
(* sequences of one-character strings, so that split, concatenation and    *)
(* line breaks are computed and not assumed.                               *)
(***************************************************************************)
EXTENDS Integers, Sequences, FiniteSets, TLC

VARIABLES
    pc,             \* position in the module body: "idle", "line8", "line9"
    cur,            \* __name__ of the module body being executed (<<>> when idle)
    sys_modules,    \* module names whose body has run to its end
    handlers,       \* the logger's handlers: id -> [kind, level, path]
    handlers_count, \* the logger's next handler id
    file,           \* text of the file at the sink's path
    archive,        \* texts of the rotated (renamed) segments, oldest first
    console,        \* text written to sys.stderr
    raised,         \* exception the latest run of the module body ended with
    add_attempts,   \* number of times line 9 called logger.add
    loads,          \* number of runs of the module body started
    calls_left,     \* logging calls the environment still makes
    last,           \* the latest logging call: <<level, message>> (<<>> if none)
    fs_writable,    \* whether the log path can be opened for appending
    universe        \* which names the module file can be loaded under:
                    \* "project" or "enumerated"

vars == <<pc, cur, sys_modules, handlers, handlers_count, file, archive,
          console, raised, add_attempts, loads, calls_left, last,
          fs_writable, universe>>

----------------------------------------------------------------------------
(* Bounds of the model *)

\* logging calls per behaviour
MaxLogs == 2

\* logging calls per behaviour when the module names are enumerated
MaxPathLogs == 1

\* runs of the module body per behaviour
MaxLoads == 2

\* most components of an enumerated module name
MaxParts == 2

\* the size at which the file rotates, in characters of the model's text;
\* it stands for rotation="500 MB" (500 * 1000^2 bytes), scaled to the
\* model's messages
RotationLimit == 6

----------------------------------------------------------------------------
(* Strings *)

DOT == "."

NL == "\n"

RECURSIVE SplitDot(_)
\* str.split("."): the components between the dots, empty ones included
SplitDot(s) ==
    IF \A i \in 1..Len(s) : s[i] # DOT
    THEN <<s>>
    ELSE LET i == CHOOSE k \in 1..Len(s) :
                      s[k] = DOT /\ \A j \in 1..(k-1) : s[j] # DOT
         IN  <<SubSeq(s, 1, i-1)>> \o SplitDot(SubSeq(s, i+1, Len(s)))

\* where the lines of a text end: at each line break, and after the last
\* character when the text does not end with one
LineEnds(s) ==
    {i \in 1..Len(s) : s[i] = NL}
        \cup (IF Len(s) > 0 /\ s[Len(s)] # NL THEN {Len(s) + 1} ELSE {})

\* the pieces of s that end at the positions in ends
LinesBetween(s, ends) ==
    [k \in 1..Cardinality(ends) |->
        LET e == CHOOSE x \in ends : Cardinality({y \in ends : y < x}) = k - 1
            b == CHOOSE x \in ends \cup {0} :
                     /\ x < e
                     /\ \A y \in ends : y < e => y <= x
        IN  SubSeq(s, b + 1, e - 1)]

\* the lines of a text, without their line breaks (the text and its line
\* ends are evaluated once)
SplitLines(text) ==
    CHOOSE lines \in {LinesBetween(p[1], p[2]) :
                         p \in {<<t, LineEnds(t)>> : t \in {text}}} : TRUE

\* whether t occurs in s as a contiguous piece
Contains(s, t) ==
    \E i \in 1..(Len(s) - Len(t) + 1) : SubSeq(s, i, i + Len(t) - 1) = t

RECURSIVE Concat(_)
Concat(ss) == IF ss = <<>> THEN <<>> ELSE Head(ss) \o Concat(Tail(ss))

LOG_SUFFIX == <<".","l","o","g">>

\* the path without the split: __name__ + ".log"
LogPath_Whole(name) == name \o LOG_SUFFIX

\* the path handed to logger.add: __name__.split(".")[0] + ".log"
LogPath(name) == SplitDot(name)[1] \o LOG_SUFFIX

----------------------------------------------------------------------------
(* Module names *)

PACKAGE_MODULE ==
    <<"m","a","t","h","e","m","a","t","i","c","a","_","m","c","p",".",
      "l","o","g","g","e","r">>

\* the same file reached through the repository root (src/ on the path)
SRC_MODULE ==
    <<"s","r","c",".","m","a","t","h","e","m","a","t","i","c","a","_",
      "m","c","p",".","l","o","g","g","e","r">>

ProjectNames == {PACKAGE_MODULE, SRC_MODULE}

\* the components the enumerated names are built from
Components == {<<"a">>, <<"a", "b">>}

RECURSIVE NamesOf(_)
\* the dotted names of k components
NamesOf(k) ==
    IF k = 1 THEN Components
    ELSE {c \o <<DOT>> \o r : c \in Components, r \in NamesOf(k - 1)}

DottedNames == UNION {NamesOf(k) : k \in 1..MaxParts}

\* the names the module file can be loaded under
Importable(u) ==
    IF u = "project" THEN ProjectNames ELSE DottedNames \cup ProjectNames

----------------------------------------------------------------------------
(* Loguru: levels, records, sinks *)

Levels == {"TRACE", "DEBUG", "INFO", "SUCCESS", "WARNING", "ERROR", "CRITICAL"}

LevelNo(l) ==
    CASE l = "TRACE"    -> 5
      [] l = "DEBUG"    -> 10
      [] l = "INFO"     -> 20
      [] l = "SUCCESS"  -> 25
      [] l = "WARNING"  -> 30
      [] l = "ERROR"    -> 40
      [] l = "CRITICAL" -> 50

\* the messages the environment logs: one line, and one with a line break
Messages == {<<"x">>, <<"x", NL, "y">>}

\* the sink added with level="INFO"
FileSinkLevel_Info == "INFO"

\* the sink's level argument, level="DEBUG"
FileSinkLevel == "DEBUG"

\* the level of the handler Loguru installs on import
DefaultSinkLevel == "DEBUG"

\* the text of a record under format="{message}"
Format_MessageOnly(level, msg) == msg \o <<NL>>

\* the text of a record under the default format: the level, a separator,
\* the message as given, a line break
Format(level, msg) == <<level, "-">> \o msg \o <<NL>>

DefaultHandler == [kind |-> "console", level |-> DefaultSinkLevel, path |-> <<>>]

FileHandler(path) == [kind |-> "file", level |-> FileSinkLevel, path |-> path]

\* a handler emits a record unless the record's level is below its own
Passes(h, level) == LevelNo(level) >= LevelNo(h.level)

\* rotation by size: rotate when the text would take the file past the limit
ShouldRotate(f, text) == Len(f) + Len(text) > RotationLimit

\* the write of a sink that deletes the old file on rotation
FileSinkWrite_NoRetain(f, a, text) ==
    IF ShouldRotate(f, text)
    THEN [file |-> text, archive |-> a]
    ELSE [file |-> f \o text, archive |-> a]

\* the file sink's write: rotate first when due (the file is renamed and kept,
\* a new one is opened), then append the text
FileSinkWrite(f, a, text) ==
    IF ShouldRotate(f, text)
    THEN [file |-> text, archive |-> Append(a, f)]
    ELSE [file |-> f \o text, archive |-> a]

HandlerIds(kind, level) ==
    {i \in DOMAIN handlers : handlers[i].kind = kind /\ Passes(handlers[i], level)}

----------------------------------------------------------------------------
(* State after `from loguru import logger` has run in the process: the     *)
(* default handler has id 0; other code may have removed it already.       *)

InitWith(names, calls) ==
    /\ pc = "idle"
    /\ cur = <<>>
    /\ sys_modules = {}
    /\ handlers \in {(0 :> DefaultHandler), <<>>}
    /\ handlers_count = 1
    /\ file = <<>>
    /\ archive = <<>>
    /\ console = <<>>
    /\ raised = "none"
    /\ add_attempts = 0
    /\ loads = 0
    /\ calls_left = calls
    /\ last = <<>>
    /\ fs_writable \in BOOLEAN
    /\ universe = names

Init == InitWith("project", MaxLogs)

InitNames == InitWith("enumerated", MaxPathLogs)

----------------------------------------------------------------------------
(* Loads of the module *)

\* import of a name not loaded yet: the module body starts
Import(name) ==
    /\ pc = "idle"
    /\ name \notin sys_modules
    /\ loads < MaxLoads
    /\ pc' = "line8"
    /\ cur' = name
    /\ raised' = "none"
    /\ loads' = loads + 1
    /\ UNCHANGED <<sys_modules, handlers, handlers_count, file, archive,
                   console, add_attempts, calls_left, last, fs_writable,
                   universe>>

\* import of a name already in sys.modules: the body does not run again
ImportCached(name) ==
    /\ pc = "idle"
    /\ name \in sys_modules
    /\ UNCHANGED vars

\* importlib.reload: the body of a loaded module runs again
Reload(name) ==
    /\ pc = "idle"
    /\ name \in sys_modules
    /\ loads < MaxLoads
    /\ pc' = "line8"
    /\ cur' = name
    /\ raised' = "none"
    /\ loads' = loads + 1
    /\ UNCHANGED <<sys_modules, handlers, handlers_count, file, archive,
                   console, add_attempts, calls_left, last, fs_writable,
                   universe>>

\* the body ends with an exception: it propagates to the load's caller
Raise(exc) ==
    /\ pc' = "idle"
    /\ cur' = <<>>
    /\ raised' = exc
    /\ UNCHANGED sys_modules

\* the body runs to its end
Finish ==
    /\ pc' = "idle"
    /\ cur' = <<>>
    /\ raised' = "none"
    /\ sys_modules' = sys_modules \cup {cur}

\* line 8 left out: nothing is removed
Remove0_Skip ==
    /\ pc = "line8"
    /\ pc' = "line9"
    /\ UNCHANGED <<cur, sys_modules, handlers, handlers_count, file, archive,
                   console, raised, add_attempts, loads, calls_left, last,
                   fs_writable, universe>>

\* line 8, logger.remove(0): ValueError when no handler has id 0
Remove0 ==
    /\ pc = "line8"
    /\ IF 0 \in DOMAIN handlers
       THEN /\ handlers' = [i \in DOMAIN handlers \ {0} |-> handlers[i]]
            /\ pc' = "line9"
            /\ UNCHANGED <<cur, raised, sys_modules>>
       ELSE /\ Raise("ValueError")
            /\ UNCHANGED handlers
    /\ UNCHANGED <<handlers_count, file, archive, console, add_attempts,
                   loads, calls_left, last, fs_writable, universe>>

\* lines 9-13 with the sink set to sys.stderr
AddFileSink_Stderr ==
    /\ pc = "line9"
    /\ add_attempts' = add_attempts + 1
    /\ handlers_count' = handlers_count + 1
    /\ handlers' = handlers @@ (handlers_count :> DefaultHandler)
    /\ Finish
    /\ UNCHANGED <<file, archive, console, loads, calls_left, last,
                   fs_writable, universe>>

\* lines 9-13 inside try/except: the error is swallowed
AddFileSink_Swallow ==
    /\ pc = "line9"
    /\ add_attempts' = add_attempts + 1
    /\ handlers_count' = handlers_count + 1
    /\ handlers' = IF fs_writable
                   THEN handlers @@ (handlers_count :> FileHandler(LogPath(cur)))
                   ELSE handlers
    /\ Finish
    /\ UNCHANGED <<file, archive, console, loads, calls_left, last,
                   fs_writable, universe>>

\* lines 9-13 with the default handler put back when the add fails
AddFileSink_Rollback ==
    /\ pc = "line9"
    /\ add_attempts' = add_attempts + 1
    /\ IF fs_writable
       THEN /\ handlers' = handlers @@ (handlers_count :> FileHandler(LogPath(cur)))
            /\ handlers_count' = handlers_count + 1
            /\ Finish
       ELSE /\ handlers' = handlers @@ ((handlers_count + 1) :> DefaultHandler)
            /\ handlers_count' = handlers_count + 2
            /\ Raise("OSError")
    /\ UNCHANGED <<file, archive, console, loads, calls_left, last,
                   fs_writable, universe>>

\* lines 9-13, logger.add(path, rotation="500 MB", level="DEBUG"): the id is
\* taken, then the file is opened for appending; an OSError (such as
\* PermissionError) leaves the handler unregistered and propagates
AddFileSink ==
    /\ pc = "line9"
    /\ add_attempts' = add_attempts + 1
    /\ handlers_count' = handlers_count + 1
    /\ IF fs_writable
       THEN /\ handlers' = handlers @@ (handlers_count :> FileHandler(LogPath(cur)))
            /\ Finish
       ELSE /\ Raise("OSError")
            /\ UNCHANGED handlers
    /\ UNCHANGED <<file, archive, console, loads, calls_left, last,
                   fs_writable, universe>>

----------------------------------------------------------------------------
(* Logging calls on the shared logger, from any code of the process *)

\* logger.trace/debug/info/success/warning/error/critical(msg): every handler
\* whose level admits the record gets its text
Log(level, msg) ==
    /\ calls_left > 0
    /\ calls_left' = calls_left - 1
    /\ last' = <<level, msg>>
    /\ console' = IF HandlerIds("console", level) # {}
                  THEN console \o Format(level, msg)
                  ELSE console
    /\ LET w == IF HandlerIds("file", level) # {}
                THEN FileSinkWrite(file, archive, Format(level, msg))
                ELSE [file |-> file, archive |-> archive]
       IN  /\ file' = w.file
           /\ archive' = w.archive
    /\ UNCHANGED <<pc, cur, sys_modules, handlers, handlers_count, raised,
                   add_attempts, loads, fs_writable, universe>>

----------------------------------------------------------------------------

Next ==
    \/ \E name \in Importable(universe) : Import(name)
    \/ \E name \in Importable(universe) : ImportCached(name)
    \/ \E name \in Importable(universe) : Reload(name)
    \/ Remove0
    \/ AddFileSink
    \/ \E level \in Levels, msg \in Messages : Log(level, msg)

Spec == Init /\ [][Next]_vars

SpecNames == InitNames /\ [][Next]_vars

----------------------------------------------------------------------------
(* What the claims speak of *)

\* a run of the module body has reached its end
Initialized == sys_modules # {}

FileSinkIds == {i \in DOMAIN handlers : handlers[i].kind = "file"}

ConsoleSinkIds == {i \in DOMAIN handlers : handlers[i].kind = "console"}

\* everything the file sink has written: the retained segments, then the
\* current file
AllText == Concat(archive) \o file

AllLines == SplitLines(AllText)

\* logger.add was called and could not open the file
AddFailed == add_attempts > 0 /\ ~fs_writable

----------------------------------------------------------------------------
(* C1: once the module body has run to its end, and whatever is logged or  *)
(* loaded afterwards, the logger has exactly one handler, it is the        *)
(* rotating file sink, and there is no console handler.                    *)
C1_SingleFileSink ==
    Initialized =>
        /\ Cardinality(DOMAIN handlers) = 1
        /\ \A i \in DOMAIN handlers :
              /\ handlers[i].kind = "file"
              /\ handlers[i].level = "DEBUG"
        /\ ConsoleSinkIds = {}

C1_Witness ==
    /\ Initialized
    /\ last # <<>>
    /\ file # <<>>
    /\ console = <<>>

C3_PathIsTopLevelPackage ==
    \A i \in FileSinkIds : \A n \in sys_modules :
        LET p    == handlers[i].path
            stem == SubSeq(p, 1, Len(p) - 4)
        IN  /\ Len(p) > 4
            /\ SubSeq(p, Len(p) - 3, Len(p)) = <<".","l","o","g">>
            /\ \A k \in 1..Len(stem) : stem[k] # "."
            /\ \/ n = stem
               \/ /\ Len(n) > Len(stem)
                  /\ SubSeq(n, 1, Len(stem) + 1) = stem \o <<".">>
            /\ (n = PACKAGE_MODULE =>
                  p = <<"m","a","t","h","e","m","a","t","i","c","a","_",
                        "m","c","p",".","l","o","g">>)

C3_Witness ==
    /\ FileSinkIds # {}
    /\ sys_modules = {<<"a", "b", ".", "a">>}

\* whether a step added the record's text, and nothing else, to the log
Recorded(level, msg) == AllText' = AllText \o Format(level, msg)

(* C4, as claimed: the file sink records the records of DEBUG and above,   *)
(* and no record emitted through the shared logger is filtered out at the  *)
(* sink.                                                                   *)
C4_Claim ==
    [][\A l \in Levels, m \in Messages :
          (FileSinkIds # {} /\ Log(l, m)) => Recorded(l, m)]_vars

(* C4, amended: the file sink records every record of severity DEBUG or    *)
(* higher (DEBUG, INFO, SUCCESS, WARNING, ERROR, CRITICAL); a record       *)
(* below DEBUG (TRACE) is filtered out at the sink and leaves the log as   *)
(* it was.                                                                 *)
C4_RecordsDebugAndAbove ==
    [][\A l \in Levels, m \in Messages :
          (FileSinkIds # {} /\ Log(l, m)) =>
              IF LevelNo(l) >= LevelNo("DEBUG")
              THEN Recorded(l, m)
              ELSE AllText' = AllText]_vars

C4_Witness ==
    /\ FileSinkIds # {}
    /\ last # <<>>
    /\ last[1] = "TRACE"
    /\ Contains(AllText, <<"DEBUG">>)
    /\ ~Contains(AllText, <<"TRACE">>)

(* C5, as claimed: the first run of the module body, with a writable log   *)
(* path, completes and installs the single file sink, whether the default  *)
(* handler (id 0) was there or had been removed before.                    *)
C5_Claim ==
    (loads = 1 /\ pc = "idle" /\ fs_writable) =>
        /\ Initialized
        /\ Cardinality(FileSinkIds) = 1

(* C6, as claimed: over any sequence of loads, the configuration takes     *)
(* effect once: no second file sink is added and, once the module is       *)
(* configured, no later load fails.                                        *)
C6_Claim ==
    /\ Cardinality(FileSinkIds) <= 1
    /\ (Initialized => raised = "none")

(* C7: a write to a file that has reached the rotation size goes to a new  *)
(* segment, the old text is retained as the latest prior segment, and no   *)
(* write loses or duplicates text across segments.                         *)
C7_RotationKeepsLines ==
    [][\A l \in Levels, m \in Messages :
          (FileSinkIds # {} /\ LevelNo(l) >= LevelNo("DEBUG") /\ Log(l, m)) =>
              /\ (Len(file) >= RotationLimit =>
                    /\ file' = Format(l, m)
                    /\ archive' = Append(archive, file))
              /\ (archive' # archive =>
                    /\ Len(archive') = Len(archive) + 1
                    /\ SubSeq(archive', 1, Len(archive)) = archive
                    /\ archive'[Len(archive')] = file)
              /\ AllLines' = AllLines \o SplitLines(Format(l, m))]_vars

C7_Witness ==
    /\ Len(archive) = 1
    /\ Len(archive[1]) >= RotationLimit
    /\ file # <<>>
    /\ Len(AllLines) > Len(SplitLines(file))

(* C8: when the log path cannot be opened, the add at line 9 ends the      *)
(* module body with an OSError that reaches the load's caller (the module  *)
(* is not loaded, no handler is registered), and logger.add is called      *)
(* once, never again.                                                      *)
C8_AddFailurePropagates ==
    [][/\ add_attempts' <= 1
       /\ (pc = "line9" /\ ~fs_writable /\ pc' # pc) =>
              /\ raised' = "OSError"
              /\ pc' = "idle"
              /\ add_attempts = 0
              /\ sys_modules' = sys_modules
              /\ FileSinkIds' = {}]_vars

C8_Witness ==
    /\ ~fs_writable
    /\ add_attempts = 1
    /\ raised = "OSError"
    /\ ~Initialized

(* C9: between line 8 and line 9 (default handler removed, no sink added   *)
(* yet) an info call writes nothing to the console.                        *)
C9_NoConsoleBeforeAdd ==
    [][\A m \in Messages :
          (pc = "line9" /\ add_attempts = 0 /\ Log("INFO", m)) =>
              console' = console]_vars

C9_Witness ==
    /\ pc = "line9"
    /\ add_attempts = 0
    /\ calls_left = MaxLogs - 1
    /\ last # <<>>
    /\ last[1] = "INFO"
    /\ console = <<>>

(* C10: when the add fails the removal of line 8 is not undone: the        *)
(* logger is left without any handler, and what is logged afterwards       *)
(* reaches neither the console nor a file.                                 *)
C10_FailedAddLeavesNoSink ==
    [][/\ (AddFailed' => DOMAIN handlers' = {})
       /\ \A l \in Levels, m \in Messages :
             (AddFailed /\ Log(l, m)) =>
                 /\ console' = console
                 /\ file' = file
                 /\ archive' = archive]_vars

C10_Witness ==
    /\ AddFailed
    /\ DOMAIN handlers = {}
    /\ calls_left = MaxLogs - 1
    /\ last # <<>>
    /\ last[1] = "ERROR"
    /\ console = <<>>
    /\ AllText = <<>>

====
